---- MODULE Spec2Model ----
(***************************************************************************)
(* Model of src/src/pages/api/index.ts: the `post` route (validation,      *)
(* balance-query dispatch, token budget, upstream call, SSE transcoder)    *)
(* and the billing helpers fetchBilling / genBillingsTable.                *)
(*                                                                         *)
(* Strings are sequences of lexical units (a key, a delimiter, a phrase);  *)
(* the upstream body is a sequence of bytes, where a run of ASCII bytes    *)
(* that the code never looks inside is one unit.                           *)
(***************************************************************************)
EXTENDS Integers, Sequences, FiniteSets, TLC

\* ------------------------------------------------------------------ bounds
MaxTok == 3        \* countTokens(content) of one message ranges over 0..MaxTok
MaxKeys == 3       \* keys in one billing aggregation (billing specification)
MaxLimit == 1      \* hard_limit_usd reported by the subscription endpoint
MaxUsage == 2      \* total_usage reported by the usage endpoint
MaxEvents == 3     \* SSE frames in one upstream body (transcoder specification)
Limit35 == 3       \* scaled-down defaultMaxInputTokens["gpt-3.5-turbo"]
Limit4 == 4        \* scaled-down defaultMaxInputTokens["gpt-4"]
OverrideAll == 2   \* value of an integer MAX_INPUT_TOKENS
OverrideOne == 5   \* value of a per-model entry of a JSON MAX_INPUT_TOKENS

\* --------------------------------------------------------------- utilities
RECURSIVE SumSeq(_)
SumSeq(s) == IF s = <<>> THEN 0 ELSE Head(s) + SumSeq(Tail(s))

RECURSIVE Flatten(_)
Flatten(ss) == IF ss = <<>> THEN <<>> ELSE Head(ss) \o Flatten(Tail(ss))

Last(s) == s[Len(s)]

\* ------------------------------------------------------------------ strings
Delims == {",", " ", "\n"}

\* String.prototype.trim: drop leading and trailing whitespace units.
RECURSIVE TrimLeft(_)
TrimLeft(s) ==
  IF s # <<>> /\ Head(s) \in {" ", "\n"} THEN TrimLeft(Tail(s)) ELSE s

RECURSIVE TrimRight(_)
TrimRight(s) ==
  IF s # <<>> /\ Last(s) \in {" ", "\n"}
  THEN TrimRight(SubSeq(s, 1, Len(s) - 1)) ELSE s

trim(s) == TrimRight(TrimLeft(s))

\* content.startsWith(p) for a one-unit prefix p.
startsWith(s, p) == s # <<>> /\ Head(s) = p

KeyNames == <<"sk-A", "sk-B", "sk-C", "sk-D", "sk-E", "sk-F">>

IsKeyUnit(u) == u = "sk-L" \/ \E i \in 1..Len(KeyNames) : u = KeyNames[i]

\* content.startsWith("sk-")
startsWithSk(s) == s # <<>> /\ IsKeyUnit(Head(s))

\* ~/utils splitKeys: split on whitespace, comma, newline; drop empty tokens.
splitKeys(s) == SelectSeq(s, LAMBDA u : u \notin Delims)

\* ~/utils randomKey: the keys it may return; "" stands for the none it returns
\* for an empty list.
randomKey(keys) == IF keys = <<>> THEN {""} ELSE { keys[i] : i \in 1..Len(keys) }

\* ------------------------------------------------------------ configuration
Models == {"gpt-3.5-turbo", "gpt-4"}

defaultModel == "gpt-3.5-turbo"

defaultMaxInputTokens == [m \in Models |-> IF m = "gpt-3.5-turbo" THEN Limit35 ELSE Limit4]

\* MAX_INPUT_TOKENS: unset, an integer, a JSON object, or text that is neither.
Overrides == {"unset", "integer", "json", "garbage"}

\* let maxInputTokens = defaultMaxInputTokens, then the override of lines 46-63.
maxInputTokens(override) ==
  CASE override = "integer" -> [m \in Models |-> OverrideAll]
    [] override = "json"    -> [defaultMaxInputTokens EXCEPT !["gpt-4"] = OverrideOne]
    [] OTHER                -> defaultMaxInputTokens

\* ------------------------------------------------------------------- inputs
\* Message contents: ordinary text, the balance command (with surrounding
\* whitespace), and credentials pasted as the message.
ChatContent == <<"hi">>

CommandContents == { <<" ", "Check the balance", "\n">>, <<"sk-A">> }

\* The conversations a request may carry: up to two messages, the last one the
\* active turn. tokens is countTokens(content), an external capability.
Msg(c, t) == [content |-> c, tokens |-> t]

LastMessages ==
  { Msg(ChatContent, t) : t \in 0..MaxTok } \cup { Msg(c, 1) : c \in CommandContents }

Conversations ==
  { <<>> } \cup { <<m>> : m \in LastMessages }
  \cup { <<Msg(ChatContent, t), m>> : t \in 0..MaxTok, m \in LastMessages }

BuiltInKeys == { <<>>, <<"sk-L">> }

SuppliedKeys == { <<"sk-L">>, <<"sk-A", ",", "sk-B">>, <<>> }

\* body of the request as parsed by context.request.json(); ok = FALSE is a body
\* that is not JSON. hasKey = FALSE is an absent key field, model = "" an absent
\* model field, password = "" an absent password.
Requests ==
  [ ok : {TRUE}, messages : Conversations, hasKey : {FALSE}, key : {<<>>},
    password : {"", "secret", "wrong"}, model : {"", "gpt-4"} ]
  \cup
  [ ok : {TRUE}, messages : Conversations, hasKey : {TRUE}, key : SuppliedKeys,
    password : {"", "secret", "wrong"}, model : {"", "gpt-4"} ]
  \cup
  [ ok : {FALSE}, messages : {<<>>}, hasKey : {FALSE}, key : {<<>>},
    password : {""}, model : {""} ]

\* process configuration: PASSWORD, OPENAI_API_KEY, MAX_INPUT_TOKENS.
Envs == [ pwd : {"", "secret"}, localKey : BuiltInKeys, override : {"unset", "integer"} ]

\* --------------------------------------------------------------- JS numbers
\* A JS number is a rational n/d in lowest terms (d > 0), NaN, an infinity
\* (n = 1 or -1), or the value undefined.
RECURSIVE Gcd(_, _)
Gcd(a, b) == IF b = 0 THEN a ELSE Gcd(b, a % b)

Abs(x) == IF x < 0 THEN -x ELSE x

Rat(n, d) ==
  LET g == Gcd(Abs(n), Abs(d))
      s == IF d < 0 THEN -1 ELSE 1
  IN [k |-> "num", n |-> s * (n \div g), d |-> s * (d \div g)]

Num(n) == [k |-> "num", n |-> n, d |-> 1]

NaN == [k |-> "nan", n |-> 0, d |-> 1]

Undefined == [k |-> "undef", n |-> 0, d |-> 1]

Infinity(sign) == [k |-> "inf", n |-> sign, d |-> 1]

Sign(i) == IF i > 0 THEN 1 ELSE IF i < 0 THEN -1 ELSE 0

\* a - b
JsSub(a, b) ==
  CASE a.k \in {"nan", "undef"} \/ b.k \in {"nan", "undef"} -> NaN
    [] a.k = "inf" /\ b.k = "inf" -> IF a.n = b.n THEN NaN ELSE a
    [] a.k = "inf" -> a
    [] b.k = "inf" -> Infinity(-b.n)
    [] OTHER -> Rat(a.n * b.d - b.n * a.d, a.d * b.d)

\* a / b
JsDiv(a, b) ==
  CASE a.k \in {"nan", "undef"} \/ b.k \in {"nan", "undef"} -> NaN
    [] a.k = "inf" /\ b.k = "inf" -> NaN
    [] a.k = "inf" -> IF b.n < 0 THEN Infinity(-a.n) ELSE a
    [] b.k = "inf" -> Num(0)
    [] b.n = 0 -> IF a.n = 0 THEN NaN ELSE Infinity(Sign(a.n))
    [] OTHER -> Rat(a.n * b.d, a.d * b.n)

\* sign of x as Array.prototype.sort reads a comparator result (NaN counts as 0)
SortOrder(x) == IF x.k \in {"nan", "undef"} THEN 0 ELSE Sign(x.n)

IsFinite(x) == x.k = "num"

\* a >= b for finite a, b
Geq(a, b) == a.n * b.d >= b.n * a.d

\* ------------------------------------------------------------------ billing
Hundred == 100

\* The catch branch of fetchBilling: the all-zero record.
ZeroBilling(key) ==
  [key |-> key, rate |-> Num(0), totalGranted |-> Num(0),
   totalUsed |-> Num(0), totalAvailable |-> Num(0)]

\* Lines 245-254: the record built from hard_limit_usd and total_usage as read
\* from the two response bodies (Undefined when the field is absent).
ComputedBilling(key, totalGranted, total_usage) ==
  LET totalUsed == JsDiv(total_usage, Num(Hundred))
      totalAvailable == JsSub(totalGranted, totalUsed)
  IN [key |-> key, rate |-> JsDiv(totalAvailable, totalGranted),
      totalGranted |-> totalGranted, totalUsed |-> totalUsed,
      totalAvailable |-> totalAvailable]

\* What one billing endpoint may answer: the fetch rejects ("network"), the body
\* is {error:{message}} ("error"), the body is JSON without the expected field
\* ("malformed"), or the body carries the field with value v ("ok").
Answer(kind, v) == [kind |-> kind, v |-> v]

SubscriptionAnswers ==
  { Answer(k, 0) : k \in {"network", "error", "malformed"} }
  \cup { Answer("ok", v) : v \in 0..MaxLimit }

UsageAnswers ==
  { Answer(k, 0) : k \in {"network", "error", "malformed"} }
  \cup { Answer("ok", v) : v \in 0..MaxUsage }

\* subscriptionData.hard_limit_usd / usageData.total_usage of an answer whose
\* body parsed: the field, or undefined when the body lacks it.
Field(ans) == IF ans.kind = "ok" THEN Num(ans.v) ELSE Undefined

\* m.totalGranted === 0
IsZero(x) == x.k = "num" /\ x.n = 0

\* The comparator of line 269, as the sign the sort routine reads.
comparefn(m, n) ==
  IF IsZero(m.totalGranted) THEN -1 ELSE SortOrder(JsSub(n.rate, m.rate))

\* Array.prototype.sort of the runtime (V8, arrays shorter than 64 elements):
\* find the initial run, reverse it when descending, then binary insertion.
RECURSIVE RunEnd(_, _, _)
RunEnd(a, idx, desc) ==
  IF idx > Len(a) THEN Len(a)
  ELSE LET order == comparefn(a[idx], a[idx - 1]) IN
       IF (desc /\ order >= 0) \/ (~desc /\ order < 0) THEN idx - 1
       ELSE RunEnd(a, idx + 1, desc)

Reverse(a) == [i \in 1..Len(a) |-> a[Len(a) + 1 - i]]

RECURSIVE BinarySearch(_, _, _, _)
BinarySearch(a, pivot, left, right) ==
  IF left >= right THEN left
  ELSE LET mid == left + ((right - left) \div 2) IN
       IF comparefn(pivot, a[mid]) < 0
       THEN BinarySearch(a, pivot, left, mid)
       ELSE BinarySearch(a, pivot, mid + 1, right)

RECURSIVE BinaryInsertionSort(_, _)
BinaryInsertionSort(a, start) ==
  IF start > Len(a) THEN a
  ELSE LET pivot == a[start]
           left == BinarySearch(a, pivot, 1, start)
           moved == SubSeq(a, 1, left - 1) \o <<pivot>>
                    \o SubSeq(a, left, start - 1) \o SubSeq(a, start + 1, Len(a))
       IN BinaryInsertionSort(moved, start + 1)

sort(a) ==
  IF Len(a) < 2 THEN a
  ELSE LET desc == comparefn(a[2], a[1]) < 0
           run == RunEnd(a, 3, desc)
           made == IF desc THEN Reverse(SubSeq(a, 1, run)) \o SubSeq(a, run + 1, Len(a))
                   ELSE a
       IN BinaryInsertionSort(made, run + 1)

\* a * b for the percentage of line 274 (b finite)
JsMul(a, b) ==
  CASE a.k \in {"nan", "undef"} -> NaN
    [] a.k = "inf" -> a
    [] OTHER -> Rat(a.n * b.n, a.d * b.d)

Dash == [k |-> "dash", n |-> 0, d |-> 1]

\* One table row (lines 271-275): an unusable key shows dashes for its numbers.
\* Keys of the model are at most 8 characters long, so slice(0, 8) keeps them;
\* the cells hold the numbers that toFixed prints.
Row(k) ==
  IF IsZero(k.totalGranted)
  THEN [key |-> k.key, remaining |-> Dash, percent |-> Dash,
        used |-> Dash, granted |-> Dash]
  ELSE [key |-> k.key, remaining |-> k.totalAvailable,
        percent |-> JsMul(k.rate, Num(Hundred)),
        used |-> k.totalUsed, granted |-> k.totalGranted]

\* genBillingsTable: billings sorted in place, one row per record.
genBillingsTable(billings) ==
  LET sorted == sort(billings) IN [i \in 1..Len(sorted) |-> Row(sorted[i])]

\* --------------------------------------------------------------- transcoder
\* Bytes of the upstream body. "data:" is the field prefix `data: `, "LF" a line
\* feed, "DONE" the payload `[DONE]`, "{" the JSON text up to and including the
\* opening quote of choices[0].delta.content, "}" the text from its closing
\* quote on, "E" a delta payload with no content field, "X" a payload that is
\* not JSON; "a" is an ASCII letter and "C3" "A9" are the two bytes of U+00E9.
ContentChars == {"a", "U+E9", "U+FFFD"}

\* TextEncoder.encode
RECURSIVE encode(_)
encode(text) ==
  IF text = <<>> THEN <<>>
  ELSE (CASE Head(text) = "U+E9"   -> <<"C3", "A9">>
          [] Head(text) = "U+FFFD" -> <<"EF", "BF", "BD">>
          [] OTHER                 -> <<Head(text)>>) \o encode(Tail(text))

\* decoder.decode(chunk) of line 187: no {stream: true}, so each chunk is decoded
\* on its own and an incomplete sequence at either end becomes U+FFFD.
RECURSIVE decode(_)
decode(chunk) ==
  IF chunk = <<>> THEN <<>>
  ELSE IF Head(chunk) = "C3"
       THEN IF Len(chunk) >= 2 /\ chunk[2] = "A9"
            THEN <<"U+E9">> \o decode(SubSeq(chunk, 3, Len(chunk)))
            ELSE <<"U+FFFD">> \o decode(Tail(chunk))
       ELSE IF Head(chunk) = "A9"
            THEN <<"U+FFFD">> \o decode(Tail(chunk))
            ELSE <<Head(chunk)>> \o decode(Tail(chunk))

\* JSON.parse(data) and json.choices[0].delta?.content (lines 176-177):
\* ok = FALSE when either throws; text is what encoder.encode receives
\* (undefined encodes as the empty string).
ParseDelta(data) ==
  IF data = <<"E">> THEN [ok |-> TRUE, text |-> <<>>]
  ELSE IF /\ Len(data) >= 2 /\ Head(data) = "{" /\ Last(data) = "}"
          /\ \A i \in 2..(Len(data) - 1) : data[i] \in ContentChars
       THEN [ok |-> TRUE, text |-> SubSeq(data, 2, Len(data) - 1)]
       ELSE [ok |-> FALSE, text |-> <<>>]

\* ReadableStreamDefaultControllerCanCloseOrEnqueue
CanCloseOrEnqueue(s) == s.state = "readable" /\ ~s.closeRequested

\* controller.error(e): nothing unless the stream is readable; drops the queue.
ControllerError(s) ==
  IF s.state # "readable" THEN s
  ELSE [s EXCEPT !.state = "errored", !.queue = <<>>]

\* controller.close(): throws when closing is no longer allowed (the exception
\* leaves streamParser, parser.feed and the loop of start).
ControllerClose(s) ==
  IF ~CanCloseOrEnqueue(s) THEN [s EXCEPT !.threw = TRUE]
  ELSE [s EXCEPT !.closeRequested = TRUE,
                 !.state = IF s.queue = <<>> THEN "closed" ELSE "readable"]

\* controller.enqueue(chunk) inside the try of lines 175-182.
ControllerEnqueue(s, chunk) ==
  IF ~CanCloseOrEnqueue(s) THEN ControllerError(s)
  ELSE [s EXCEPT !.queue = Append(s.queue, chunk),
                 !.emitted = s.emitted \o chunk,
                 !.enqueued = s.enqueued + 1]

\* streamParser with an empty catch: a payload that fails to parse is skipped.
streamParserSwallow(s, data) ==
  IF data = <<"DONE">> THEN ControllerClose(s)
  ELSE LET json == ParseDelta(data) IN
       IF json.ok THEN ControllerEnqueue(s, encode(json.text)) ELSE s

\* streamParser for an event of type "event" (lines 168-184).
streamParser(s, data) ==
  IF data = <<"DONE">> THEN ControllerClose(s)
  ELSE LET json == ParseDelta(data) IN
       IF json.ok THEN ControllerEnqueue(s, encode(json.text))
       ELSE ControllerError(s)

\* eventsource-parser on one complete line: a data field is added to the
\* pending event, an empty line dispatches it, any other line is ignored.
ParseLine(s, line) ==
  IF line = <<>>
  THEN IF s.data = <<>> THEN s
       ELSE streamParser([s EXCEPT !.data = <<>>, !.events = s.events + 1],
                         SubSeq(s.data, 1, Len(s.data) - 1))
  ELSE IF Head(line) = "data:"
       THEN [s EXCEPT !.data = s.data \o Tail(line) \o <<"LF">>]
       ELSE s

\* parser.feed(text): buffer up to the next line feed; stops at an exception.
RECURSIVE feed(_, _)
feed(s, text) ==
  IF text = <<>> \/ s.threw THEN s
  ELSE IF Head(text) = "LF"
       THEN feed(ParseLine([s EXCEPT !.buf = <<>>], s.buf), Tail(text))
       ELSE feed([s EXCEPT !.buf = Append(s.buf, Head(text))], Tail(text))

\* The stream as constructed at line 166, before start has read anything.
\* emitted (the bytes enqueued so far), enqueued (the chunks enqueued so far) and
\* events (the events the parser dispatched so far) record history.
NewStream ==
  [state |-> "readable", closeRequested |-> FALSE, queue |-> <<>>,
   buf |-> <<>>, data |-> <<>>, threw |-> FALSE,
   emitted |-> <<>>, enqueued |-> 0, events |-> 0,
   cancelled |-> FALSE]

\* What the upstream may send: events framed as `data: <payload>\n\n`.
Payloads ==
  { <<"DONE">>, <<"E">>, <<"X">>, <<"{", "a", "}">>, <<"{", "C3", "A9", "}">> }

Frame(payload) == <<"data:">> \o payload \o <<"LF", "LF">>

RECURSIVE Wire(_)
Wire(payloads) ==
  IF payloads = <<>> THEN <<>> ELSE Frame(Head(payloads)) \o Wire(Tail(payloads))

EventSeqs(n) == UNION { [1..k -> Payloads] : k \in 0..n }

\* -------------------------------------------------------------------- state
VARIABLES
  env,       \* process configuration, read-only after start-up
  req,       \* the request body
  pc,        \* where the handler is: start, billing, upstream, done
  resp,      \* the Response returned by post (status 0: none yet)
  calls,     \* outbound network calls issued so far, counted per endpoint
  apiKey,    \* the key randomKey selected ("" before the selection)
  tasks,     \* the fetchBilling calls of one aggregation, in key order
  billings,  \* the array handed to genBillingsTable, as sort leaves it
  table,     \* the rows genBillingsTable rendered
  rawRes,    \* the upstream chat-completion response
  sent,      \* payloads of the events the upstream body carries
  upstream,  \* bytes of the upstream body not yet read by the loop of start
  loop,      \* the for-await loop of start: idle, running, returned, threw
  stream,    \* the parser and the controller of the outbound ReadableStream
  out        \* bytes the caller has read from the outbound stream

vars == <<env, req, pc, resp, calls, apiKey, tasks, billings, table, rawRes, sent,
          upstream, loop, stream, out>>

billingVars == <<tasks, billings, table>>

streamVars == <<rawRes, sent, upstream, loop, stream, out>>

NoResponse == [status |-> 0, statusText |-> "", body |-> [kind |-> "none", data |-> ""]]

\* A body is JSON.stringify({error:{message}}) made by the handler (kind "json",
\* data the message) or bytes that came from the upstream (kind "raw").
NoRawRes ==
  [ok |-> FALSE, status |-> 0, statusText |-> "", body |-> [kind |-> "none", data |-> ""]]

NoCalls == [chat |-> 0, subscription |-> 0, usage |-> 0]

Fresh(e, r) ==
  /\ env = e
  /\ req = r
  /\ pc = "start"
  /\ resp = NoResponse
  /\ calls = NoCalls
  /\ apiKey = ""
  /\ tasks = <<>>
  /\ billings = <<>>
  /\ table = <<>>
  /\ rawRes = NoRawRes
  /\ sent = <<>>
  /\ upstream = <<>>
  /\ loop = "idle"
  /\ stream = NewStream
  /\ out = <<>>

Init == \E e \in Envs, r \in Requests : Fresh(e, r)

\* ------------------------------------------------------------ post: lines 69-126
\* const { key = localKey } = body
EffectiveKey(r, e) == IF r.hasKey THEN r.key ELSE e.localKey

\* const { model = defaultModel } = body
EffectiveModel(r) == IF r.model = "" THEN defaultModel ELSE r.model

\* ValidationError without the password comparison of line 84.
ValidationErrorNoPassword(r, e) ==
  IF ~r.ok THEN "Unexpected token in JSON"
  ELSE IF Len(r.messages) = 0 THEN " No text was entered" ELSE ""

\* Lines 69-90: the error thrown before the last message is looked at, or "".
ValidationError(r, e) ==
  IF ~r.ok THEN "Unexpected token in JSON"
  ELSE IF e.pwd # "" /\ e.pwd # r.password
       THEN "The password is incorrect, please contact the webmaster."
       ELSE IF Len(r.messages) = 0 THEN " No text was entered" ELSE ""

\* Classify without the comparison of line 93: the command always queries.
ClassifyNoDenial(r, e) ==
  LET content == trim(Last(r.messages).content) IN
  IF startsWith(content, "Check the balance") THEN "balanceByKey"
  ELSE IF startsWithSk(content) THEN "balancePasted" ELSE "completion"

\* Classify without the branch of lines 101-106: pasted keys are chat content.
ClassifyNoPasted(r, e) ==
  LET content == trim(Last(r.messages).content) IN
  IF startsWith(content, "Check the balance")
  THEN IF EffectiveKey(r, e) # e.localKey THEN "balanceByKey" ELSE "balanceDenied"
  ELSE "completion"

\* Lines 91-106: what the last message asks for.
Classify(r, e) ==
  LET content == trim(Last(r.messages).content) IN
  IF startsWith(content, "Check the balance")
  THEN IF EffectiveKey(r, e) # e.localKey THEN "balanceByKey" ELSE "balanceDenied"
  ELSE IF startsWithSk(content) THEN "balancePasted" ELSE "completion"

\* The keys a balance query looks up (lines 95 and 103).
BalanceKeys(r, e) ==
  IF Classify(r, e) = "balanceByKey" THEN splitKeys(EffectiveKey(r, e))
  ELSE splitKeys(trim(Last(r.messages).content))

\* Lines 113-116
estimate(messages) == SumSeq([i \in 1..Len(messages) |-> messages[i].tokens])

\* Line 119: body.key ? defaultMaxInputTokens[model] : maxInputTokens[model]
limitFor(r, e) ==
  IF r.hasKey /\ r.key # <<>>
  THEN defaultMaxInputTokens[EffectiveModel(r)]
  ELSE maxInputTokens(e.override)[EffectiveModel(r)]

\* OverBudget with the comparison of line 118 off by one.
OverBudgetOffByOne(r, e) == estimate(r.messages) > limitFor(r, e) + 1

\* Line 118
OverBudget(r, e) == estimate(r.messages) > limitFor(r, e)

\* Lines 121-125
TooLongMessage(r) ==
  IF Len(r.messages) > 1
  THEN "This conversation is too long"
  ELSE "It's too long, shorten it a bit."

\* The catch of lines 193-202.
Envelope400(message) ==
  [status |-> 400, statusText |-> "", body |-> [kind |-> "json", data |-> message]]

Throw(message) ==
  /\ resp' = Envelope400(message)
  /\ pc' = "done"

\* A request rejected before any dispatch: body not JSON, wrong password, no
\* messages, or the balance command with the built-in key.
PostReject ==
  /\ pc = "start"
  /\ \/ /\ ValidationError(req, env) # ""
        /\ Throw(ValidationError(req, env))
     \/ /\ ValidationError(req, env) = ""
        /\ Classify(req, env) = "balanceDenied"
        /\ Throw("If the OpenAI API key is not filled in, the built-in key will not be queried.")
  /\ UNCHANGED <<env, req, calls, apiKey, billingVars, streamVars>>

\* fetchBilling up to its first await: the subscription request is on its way.
\* subscription and usage hold the answers received so far (kind "none": not yet).
NewTask(key) ==
  [key |-> key, stage |-> "subscription", subscription |-> Answer("none", 0),
   usage |-> Answer("none", 0), result |-> ZeroBilling(key)]

\* Lines 94-96 / 102-104: one fetchBilling per key, all started at once.
PostBalance ==
  /\ pc = "start"
  /\ ValidationError(req, env) = ""
  /\ Classify(req, env) \in {"balanceByKey", "balancePasted"}
  /\ LET keys == BalanceKeys(req, env) IN
     /\ tasks' = [i \in 1..Len(keys) |-> NewTask(keys[i])]
     /\ calls' = [calls EXCEPT !.subscription = @ + Len(keys)]
  /\ pc' = "billing"
  /\ UNCHANGED <<env, req, resp, apiKey, billings, table, streamVars>>

\* NoKey with the test of line 111 left out.
NoKeyIgnored(k) == FALSE

\* Line 111: !apiKey
NoKey(k) == k = ""

\* The text thrown at line 111.
KeyNotFilledIn == "The OpenAI API key is not filled in, or the key is incorrect."

\* Lines 109-147: key selection, token budget, then the upstream request.
PostComplete ==
  /\ pc = "start"
  /\ ValidationError(req, env) = ""
  /\ Classify(req, env) = "completion"
  /\ \E k \in randomKey(splitKeys(EffectiveKey(req, env))) :
       /\ apiKey' = k
       /\ IF NoKey(k)
          THEN /\ Throw(KeyNotFilledIn)
               /\ UNCHANGED calls
          ELSE IF OverBudget(req, env)
               THEN /\ Throw(TooLongMessage(req))
                    /\ UNCHANGED calls
               ELSE /\ calls' = [calls EXCEPT !.chat = @ + 1]
                    /\ pc' = "upstream"
                    /\ UNCHANGED resp
  /\ UNCHANGED <<env, req, billingVars, streamVars>>

\* ------------------------------------------------- fetchBilling: lines 213-265
\* Lines 237-242: the subscription answer arrives. A rejected fetch and an error
\* payload end in the catch; otherwise the usage request is sent.
AfterSubscription(t, ans) ==
  IF ans.kind \in {"network", "error"}
  THEN [t EXCEPT !.stage = "done", !.subscription = ans, !.result = ZeroBilling(t.key)]
  ELSE [t EXCEPT !.stage = "usage", !.subscription = ans]

\* Lines 244-264: the usage answer arrives. Only a rejected fetch ends in the
\* catch; the body is read for total_usage whatever it holds.
AfterUsage(t, ans) ==
  IF ans.kind = "network"
  THEN [t EXCEPT !.stage = "done", !.usage = ans, !.result = ZeroBilling(t.key)]
  ELSE [t EXCEPT !.stage = "done", !.usage = ans,
                 !.result = ComputedBilling(t.key, Field(t.subscription), Field(ans))]

SubscriptionReturn ==
  /\ pc = "billing"
  /\ \E i \in 1..Len(tasks), ans \in SubscriptionAnswers :
       /\ tasks[i].stage = "subscription"
       /\ tasks' = [tasks EXCEPT ![i] = AfterSubscription(tasks[i], ans)]
       /\ calls' = IF tasks'[i].stage = "usage"
                   THEN [calls EXCEPT !.usage = @ + 1] ELSE calls
  /\ UNCHANGED <<env, req, pc, resp, apiKey, billings, table, streamVars>>

UsageReturn ==
  /\ pc = "billing"
  /\ \E i \in 1..Len(tasks), ans \in UsageAnswers :
       /\ tasks[i].stage = "usage"
       /\ tasks' = [tasks EXCEPT ![i] = AfterUsage(tasks[i], ans)]
  /\ UNCHANGED <<env, req, pc, resp, calls, apiKey, billings, table, streamVars>>

\* AllSettled as Promise.race would have it: the first lookup to settle decides.
AnySettled(ts) == \E i \in 1..Len(ts) : ts[i].stage = "done"

\* Promise.all settles once every fetchBilling has.
AllSettled(ts) == \A i \in 1..Len(ts) : ts[i].stage = "done"

\* Lines 94-97 / 102-105 after the await: the table is rendered and returned.
BillingJoin ==
  /\ pc = "billing"
  /\ AllSettled(tasks)
  /\ LET results == [i \in 1..Len(tasks) |-> tasks[i].result] IN
     /\ billings' = sort(results)
     /\ table' = genBillingsTable(results)
  /\ resp' = [status |-> 200, statusText |-> "", body |-> [kind |-> "table", data |-> ""]]
  /\ pc' = "done"
  /\ UNCHANGED <<env, req, calls, apiKey, tasks, streamVars>>

\* ------------------------------------------------ upstream call: lines 131-192
\* Non-success answers of the chat-completion endpoint.
UpstreamErrors ==
  { [ok |-> FALSE, status |-> 429, statusText |-> "Too Many Requests",
     body |-> [kind |-> "raw", data |-> "rate limit reached"]],
    [ok |-> FALSE, status |-> 401, statusText |-> "Unauthorized",
     body |-> [kind |-> "raw", data |-> "invalid api key"]] }

\* CaughtResponse with the status the outer catch of line 200 uses.
CaughtResponseAs400(message) ==
  [ok |-> FALSE, status |-> 400, statusText |-> "",
   body |-> [kind |-> "json", data |-> message]]

\* Lines 148-157: a rejected fetchWithTimeout becomes a 500 Response whose body
\* is JSON.stringify({error:{message: err.message}}).
CaughtResponse(message) ==
  [ok |-> FALSE, status |-> 500, statusText |-> "",
   body |-> [kind |-> "json", data |-> message]]

\* Relay answering with a fixed 500 instead of the upstream status.
RelayAs500(r) ==
  [status |-> 500, statusText |-> r.statusText, body |-> r.body]

\* Lines 159-164: new Response(rawRes.body, {status, statusText}).
Relay(r) ==
  [status |-> r.status, statusText |-> r.statusText, body |-> r.body]

\* Messages fetchWithTimeout rejects with: the timeout's abort, a network error.
FetchFailures == {"The operation was aborted", "fetch failed"}

\* fetchWithTimeout rejects: timeout or network error.
UpstreamReject ==
  /\ pc = "upstream"
  /\ \E message \in FetchFailures :
       /\ rawRes' = CaughtResponse(message)
       /\ resp' = Relay(rawRes')
  /\ pc' = "done"
  /\ UNCHANGED <<env, req, calls, apiKey, billingVars, sent, upstream, loop, stream, out>>

\* The upstream answers with a non-success status.
UpstreamError ==
  /\ pc = "upstream"
  /\ \E r \in UpstreamErrors :
       /\ rawRes' = r
       /\ resp' = Relay(r)
  /\ pc' = "done"
  /\ UNCHANGED <<env, req, calls, apiKey, billingVars, sent, upstream, loop, stream, out>>

\* Bodies a successful upstream answer carries in the handler specification.
ShortBodies == { <<>>, << <<"{", "a", "}">>, <<"DONE">> >>, << <<"X">> >> }

\* Lines 159 and 166-192: the successful upstream answer; the Response post
\* returns, wrapping the stream.
OkResponse ==
  [ok |-> TRUE, status |-> 200, statusText |-> "OK",
   body |-> [kind |-> "raw", data |-> "event stream"]]

StreamResponse ==
  [status |-> 200, statusText |-> "", body |-> [kind |-> "stream", data |-> ""]]

\* The stream is constructed, start begins its loop over the body carrying the
\* events e, and the Response is returned.
UpstreamOk ==
  /\ pc = "upstream"
  /\ \E e \in ShortBodies :
       /\ sent' = e
       /\ upstream' = Wire(e)
  /\ rawRes' = OkResponse
  /\ loop' = "running"
  /\ stream' = NewStream
  /\ resp' = StreamResponse
  /\ pc' = "done"
  /\ UNCHANGED <<env, req, calls, apiKey, billingVars, out>>

\* Line 166: new ReadableStream(source) without a queuing strategy has the
\* default high-water mark; the queue is full (desiredSize <= 0) from there on.
HighWaterMark == 1

\* One iteration of the loop of lines 186-188: the next chunk (any non-empty
\* prefix of what is left of the body) is decoded and fed to the parser. An
\* exception leaving feed rejects start, which errors the controller.
Pump ==
  /\ loop = "running"
  /\ upstream # <<>>
  /\ \E n \in 1..Len(upstream) :
       LET fed == feed(stream, decode(SubSeq(upstream, 1, n))) IN
       /\ upstream' = SubSeq(upstream, n + 1, Len(upstream))
       /\ stream' = IF fed.threw THEN ControllerError(fed) ELSE fed
       /\ loop' = IF fed.threw THEN "threw" ELSE "running"
  /\ UNCHANGED <<env, req, pc, resp, calls, apiKey, billingVars, rawRes, sent, out>>

\* The upstream body ends: the loop finishes and start returns.
BodyEnd ==
  /\ loop = "running"
  /\ upstream = <<>>
  /\ loop' = "returned"
  /\ UNCHANGED <<env, req, pc, resp, calls, apiKey, billingVars, rawRes, sent, upstream, stream, out>>

\* The caller reads one chunk of the response body; reading the last chunk of a
\* stream whose close was requested closes it.
ConsumerRead ==
  /\ resp.body.kind = "stream"
  /\ stream.state = "readable"
  /\ stream.queue # <<>>
  /\ out' = out \o Head(stream.queue)
  /\ stream' = [stream EXCEPT !.queue = Tail(stream.queue),
                  !.state = IF stream.closeRequested /\ Len(stream.queue) = 1
                            THEN "closed" ELSE "readable"]
  /\ UNCHANGED <<env, req, pc, resp, calls, apiKey, billingVars, rawRes, sent, upstream, loop>>

\* The caller goes away and the runtime cancels the response body. The
\* underlying source of lines 166-190 has no cancel(): the stream is closed and
\* its queue dropped, and nothing reaches the loop of lines 186-188.
ConsumerCancel ==
  /\ resp.body.kind = "stream"
  /\ stream.state = "readable"
  /\ stream' = [stream EXCEPT !.state = "closed", !.queue = <<>>, !.cancelled = TRUE]
  /\ UNCHANGED <<env, req, pc, resp, calls, apiKey, billingVars, rawRes, sent, upstream, loop, out>>

\* ----------------------------------------------------------- specifications
NextPost == PostReject \/ PostBalance \/ PostComplete

NextBilling == SubscriptionReturn \/ UsageReturn \/ BillingJoin

NextUpstream == UpstreamReject \/ UpstreamError \/ UpstreamOk

NextStream == Pump \/ BodyEnd \/ ConsumerRead

Next == NextPost \/ NextBilling \/ NextUpstream \/ NextStream \/ ConsumerCancel

\* The whole handler, for every request and configuration of the input sets.
Spec == Init /\ [][Next]_vars

\* A request whose only message is n pasted keys, under the default configuration.
PastedKeys(n) ==
  Flatten([i \in 1..n |-> IF i = 1 THEN <<KeyNames[i]>> ELSE <<",", KeyNames[i]>>])

DefaultEnv == [pwd |-> "", localKey |-> <<"sk-L">>, override |-> "unset"]

Request(content) ==
  [ok |-> TRUE, messages |-> <<Msg(content, 1)>>, hasKey |-> FALSE, key |-> <<>>,
   password |-> "", model |-> ""]

InitBilling == \E n \in 1..MaxKeys : Fresh(DefaultEnv, Request(PastedKeys(n)))

\* The billing aggregation over up to MaxKeys keys.
SpecBilling == InitBilling /\ [][PostBalance \/ NextBilling]_vars

\* Chat requests without a password, under every kind of MAX_INPUT_TOKENS.
ChatRequests ==
  { r \in Requests :
      r.ok /\ r.password = "" /\ Len(r.messages) > 0 /\ Last(r.messages).content = ChatContent }

InitBudget ==
  \E o \in Overrides, r \in ChatRequests : Fresh([DefaultEnv EXCEPT !.override = o], r)

\* Key selection and the token budget under every override configuration.
SpecBudget == InitBudget /\ [][PostComplete]_vars

\* The transcoder over every body of up to MaxEvents events: the state in which
\* post returns the streaming Response for a plain chat request.
InitStream ==
  /\ env = DefaultEnv
  /\ req = Request(ChatContent)
  /\ pc = "done"
  /\ resp = StreamResponse
  /\ calls = [NoCalls EXCEPT !.chat = 1]
  /\ apiKey = "sk-L"
  /\ tasks = <<>>
  /\ billings = <<>>
  /\ table = <<>>
  /\ rawRes = OkResponse
  /\ \E e \in EventSeqs(MaxEvents) :
       /\ sent = e
       /\ upstream = Wire(e)
  /\ loop = "running"
  /\ stream = NewStream
  /\ out = <<>>

\* The transcoder with a caller that stays connected.
SpecStream == InitStream /\ [][NextStream]_vars

\* The transcoder with a caller that may disconnect. The loop takes every chunk
\* that has arrived and the caller's reads are served (weak fairness of both);
\* whether and when the body ends is the upstream's choice, so BodyEnd carries
\* no fairness: an upstream that stalls mid-stream is not aborted (line 131
\* passes the timeout to the request only).
SpecCancel ==
  /\ InitStream
  /\ [][NextStream \/ ConsumerCancel]_vars
  /\ WF_vars(Pump)
  /\ WF_vars(ConsumerRead)

\* ------------------------------------------------------------------- claims
\* C1: a request whose message list is missing or empty, or whose password
\* differs from a configured server password, is answered with the 400 JSON
\* envelope, and no outbound network call is issued at any point of it.
InvalidRequest ==
  \/ Len(req.messages) = 0
  \/ (env.pwd # "" /\ env.pwd # req.password)

C1_InvalidRequestRejected ==
  InvalidRequest =>
    /\ calls = NoCalls
    /\ pc \in {"start", "done"}
    /\ pc = "done" => (resp.status = 400 /\ resp.body.kind = "json")

\* C1 witness: a wrong password on an otherwise complete chat request, answered.
C1_Witness ==
  /\ pc = "done"
  /\ env.pwd = "secret" /\ req.password = "wrong"
  /\ Len(req.messages) = 2
  /\ resp.status = 400

\* C2: the chat-completion request is sent only when estimate <= limit; a
\* completion request (valid, key selected) with estimate > limit is answered
\* with 400 and sends nothing upstream.
C2_BudgetBeforeUpstream ==
  /\ calls.chat > 0 => estimate(req.messages) <= limitFor(req, env)
  /\ (pc = "done" /\ apiKey # "" /\ estimate(req.messages) > limitFor(req, env))
       => (resp.status = 400 /\ calls.chat = 0)
  /\ (pc # "start" /\ apiKey # "" /\ estimate(req.messages) <= limitFor(req, env))
       => calls.chat = 1

\* C2 witness: a request exactly at the limit was forwarded.
C2_Witness ==
  /\ calls.chat = 1
  /\ estimate(req.messages) = limitFor(req, env)

\* C10: a non-success upstream answer is relayed with its status, status text
\* and body, and the transcoder never starts (no event parsed, nothing emitted).
C10_NonSuccessRelayed ==
  (rawRes.status # 0 /\ ~rawRes.ok) =>
    /\ pc = "done"
    /\ resp.status = rawRes.status
    /\ resp.statusText = rawRes.statusText
    /\ resp.body = rawRes.body
    /\ loop = "idle"
    /\ stream = NewStream
    /\ out = <<>>

\* C10 witness: an upstream 429 reached the caller.
C10_Witness ==
  /\ rawRes.status = 429
  /\ resp.status = 429
  /\ resp.body.data = "rate limit reached"

\* The bytes of the delta content a payload carries (none for "E").
Content(payload) ==
  IF Head(payload) = "{" THEN SubSeq(payload, 2, Len(payload) - 1) ELSE <<>>

IsDelta(payload) == payload = <<"E">> \/ Head(payload) = "{"

\* Well-formed delta events followed by the "[DONE]" event.
DeltasThenDone(e) ==
  /\ Len(e) >= 1
  /\ Last(e) = <<"DONE">>
  /\ \A i \in 1..(Len(e) - 1) : IsDelta(e[i])

\* The loop of start is over and the caller has read all it can.
Drained == loop # "running" /\ (stream.queue = <<>> \/ stream.state # "readable")

\* C3: for well-formed deltas followed by "[DONE]", however the body is cut into
\* chunks, the caller receives exactly the concatenated delta contents and the
\* stream ends closed.
C3_ExactConcatenation ==
  (DeltasThenDone(sent) /\ Drained) =>
    /\ out = Flatten([i \in 1..Len(sent) |-> Content(sent[i])])
    /\ stream.state = "closed"

\* Index of the first payload that is not JSON (0: none).
FirstBad(e) ==
  IF \E i \in 1..Len(e) : e[i] = <<"X">>
  THEN CHOOSE i \in 1..Len(e) : e[i] = <<"X">> /\ \A j \in 1..(i - 1) : e[j] # <<"X">>
  ELSE 0

\* streamParser has been called for the first payload that is not JSON.
BadEventSeen == FirstBad(sent) # 0 /\ stream.events >= FirstBad(sent)

DeltasBefore(e, n) == Cardinality({ i \in 1..(n - 1) : IsDelta(e[i]) })

DoneBefore(e, n) == \E i \in 1..(n - 1) : e[i] = <<"DONE">>

\* No chunk was enqueued for the malformed event or for any event after it.
NothingEmittedSinceBad ==
  /\ stream.enqueued <= DeltasBefore(sent, FirstBad(sent))
  /\ Len(out) <= Len(stream.emitted)

Failure == {"network", "error", "malformed"}

LookupFailed(t) == t.subscription.kind \in Failure \/ t.usage.kind \in Failure

Positive(x) == x.k = "num" /\ x.n > 0

\* C5: the aggregation never raises and returns one record (one row) per key;
\* a key whose lookups failed has rate = 0 and totalGranted = 0, the other keys
\* carry the values computed from their answers.
C5_PartialFailureTolerated ==
  pc = "done" =>
    /\ resp.status = 200
    /\ Len(billings) = Len(tasks) /\ Len(table) = Len(tasks)
    /\ \A i \in 1..Len(tasks) : \E j \in 1..Len(billings) : billings[j] = tasks[i].result
    /\ \A i \in 1..Len(tasks) :
         IF LookupFailed(tasks[i])
         THEN tasks[i].result.rate = Num(0) /\ tasks[i].result.totalGranted = Num(0)
         ELSE /\ tasks[i].result.totalGranted = Num(tasks[i].subscription.v)
              /\ tasks[i].result.totalUsed = Rat(tasks[i].usage.v, Hundred)

\* C6: every kind of failure of either lookup yields the all-zero record.
C6_FailureYieldsZeroRecord ==
  \A i \in 1..Len(tasks) :
    (tasks[i].stage = "done" /\ LookupFailed(tasks[i]))
      => tasks[i].result = ZeroBilling(tasks[i].key)

\* C7: in table order every record with totalGranted == 0 comes before every
\* record with totalGranted > 0.
C7_ZeroGrantedFirst ==
  pc = "done" =>
    \A i, j \in 1..Len(billings) :
      (IsZero(billings[i].totalGranted) /\ Positive(billings[j].totalGranted)) => i < j

\* C8: among the records with totalGranted > 0 the rate is non-increasing in
\* table order.
C8_RateNonIncreasing ==
  pc = "done" =>
    \A i, j \in 1..Len(billings) :
      ( /\ i < j
        /\ Positive(billings[i].totalGranted) /\ Positive(billings[j].totalGranted)
        /\ IsFinite(billings[i].rate) /\ IsFinite(billings[j].rate) )
      => Geq(billings[i].rate, billings[j].rate)

\* C9: every record fetchBilling returns has rate = totalAvailable / totalGranted
\* when totalGranted != 0 and rate = 0 when totalGranted == 0.
C9_RateDefined ==
  \A i \in 1..Len(tasks) :
    tasks[i].stage = "done" =>
      LET b == tasks[i].result IN
      /\ IsZero(b.totalGranted) => b.rate = Num(0)
      /\ (IsFinite(b.totalGranted) /\ ~IsZero(b.totalGranted))
           => b.rate = JsDiv(b.totalAvailable, b.totalGranted)

\* C11: when fetchWithTimeout rejects, the handler answers 500 with the JSON
\* body {error:{message}} carrying the failure message; the answer is not the
\* 400 envelope and the transcoder is not started.
C11_RejectedFetchAnswers500 ==
  \A message \in FetchFailures :
    (pc = "done" /\ calls.chat = 1 /\ rawRes.body = [kind |-> "json", data |-> message]) =>
      /\ resp.status = 500
      /\ resp.body = [kind |-> "json", data |-> message]
      /\ resp # Envelope400(message)
      /\ loop = "idle"
      /\ stream = NewStream
      /\ out = <<>>

\* C11 witness: a timeout was answered with the 500 envelope.
C11_Witness ==
  /\ rawRes.body = [kind |-> "json", data |-> "The operation was aborted"]
  /\ resp.status = 500
  /\ resp.body.kind = "json"
  /\ loop = "idle"

\* The last message is the "Check the balance" command (lines 91-92).
ChecksBalance ==
  /\ Len(req.messages) > 0
  /\ startsWith(trim(Last(req.messages).content), "Check the balance")

\* The text thrown at line 98.
BuiltInNotQueried ==
  "If the OpenAI API key is not filled in, the built-in key will not be queried."

\* C12: the check-balance command with an effective key equal to the built-in
\* one (none supplied, or the same one supplied) is answered with the 400
\* envelope; no billing lookup and no completion call is made for it, so the
\* command's lookups happen only when the supplied key differs.
C12_BuiltInKeyNotQueried ==
  /\ (ChecksBalance /\ EffectiveKey(req, env) = env.localKey) =>
       /\ calls = NoCalls
       /\ pc \in {"start", "done"}
       /\ tasks = <<>>
       /\ pc = "done" => resp.status = 400 /\ resp.body.kind = "json"
       /\ (pc = "done" /\ ValidationError(req, env) = "") => resp = Envelope400(BuiltInNotQueried)
  /\ (ChecksBalance /\ calls.subscription > 0) =>
       req.hasKey /\ req.key # env.localKey

\* C12 witness: the caller supplied the built-in key itself and was refused.
C12_Witness ==
  /\ ChecksBalance
  /\ req.hasKey
  /\ req.key = env.localKey
  /\ env.localKey # <<>>
  /\ pc = "done"
  /\ resp = Envelope400(BuiltInNotQueried)

\* The last message pastes keys: it starts with "sk-" (line 101).
PastesKeys ==
  /\ Len(req.messages) > 0
  /\ ~ChecksBalance
  /\ startsWithSk(trim(Last(req.messages).content))

\* A balance query: the command with a key that differs from the built-in one,
\* or pasted keys, in a request that passed validation.
BalanceQuery ==
  /\ ValidationError(req, env) = ""
  /\ \/ ChecksBalance /\ EffectiveKey(req, env) # env.localKey
     \/ PastesKeys

\* C13: a balance query goes to the billing path and is answered with the
\* table; no chat-completion call is made for it, no key is selected and the
\* token budget is not applied, at any point of the request.
C13_BalanceQueryNeverChats ==
  BalanceQuery =>
    /\ calls.chat = 0
    /\ apiKey = ""
    /\ pc \in {"start", "billing", "done"}
    /\ rawRes = NoRawRes
    /\ loop = "idle"
    /\ pc = "billing" => resp = NoResponse
    /\ pc = "done" =>
         /\ resp.status = 200
         /\ resp.body.kind = "table"
         /\ Len(table) = Len(BalanceKeys(req, env))

\* C13 witness: pasted keys in a conversation over the token budget were
\* answered with their table.
C13_Witness ==
  /\ PastesKeys
  /\ BalanceQuery
  /\ OverBudget(req, env)
  /\ pc = "done"
  /\ resp.status = 200
  /\ resp.body.kind = "table"
  /\ Len(table) = 1

\* A completion request (neither the command nor pasted keys) that passed
\* validation and whose effective credential string holds no key.
NoKeyAtAll ==
  /\ ValidationError(req, env) = ""
  /\ ~ChecksBalance
  /\ ~PastesKeys
  /\ splitKeys(EffectiveKey(req, env)) = <<>>

\* C14: when the effective credential string yields no key, the request is
\* answered with the 400 JSON envelope (not the 500 of a failed upstream call)
\* and no chat-completion call is made.
C14_NoKeyRejected ==
  NoKeyAtAll =>
    /\ calls = NoCalls
    /\ pc \in {"start", "done"}
    /\ rawRes = NoRawRes
    /\ loop = "idle"
    /\ pc = "done" => resp = Envelope400(KeyNotFilledIn) /\ resp.status # 500

\* C14 witness: the caller supplied an empty key, the built-in key exists, and
\* the request was refused.
C14_Witness ==
  /\ NoKeyAtAll
  /\ req.hasKey
  /\ env.localKey # <<>>
  /\ pc = "done"
  /\ resp = Envelope400(KeyNotFilledIn)

\* The ceiling line 119 applies for model m to a request that supplies its own
\* key, and to one that relies on the built-in key, under the configuration.
OwnCeiling(m) ==
  limitFor([req EXCEPT !.hasKey = TRUE, !.key = <<"sk-A">>, !.model = m], env)

BuiltInCeiling(m) ==
  limitFor([req EXCEPT !.hasKey = FALSE, !.key = <<>>, !.model = m], env)

\* C15: for every model and every configuration of the override (none, one
\* integer for all models, a per-model map), the ceiling applied to a request
\* with its own credential is larger than the one applied to a request that
\* uses the built-in credential.
C15_OwnCeilingLarger ==
  (pc # "start" /\ ~NoKey(apiKey)) =>
    \A m \in Models : OwnCeiling(m) > BuiltInCeiling(m)

\* C16: the table is built and returned only after every per-key lookup has
\* completed, in whatever order the lookups complete; while one is pending
\* nothing is rendered and nothing is answered.
C16_TableAfterAllLookups ==
  /\ pc = "billing" => resp = NoResponse /\ table = <<>> /\ billings = <<>>
  /\ (pc = "done" /\ resp.body.kind = "table") =>
       /\ \A i \in 1..Len(tasks) : tasks[i].stage = "done"
       /\ table = genBillingsTable([i \in 1..Len(tasks) |-> tasks[i].result])

\* C16 witness: the last key's lookup has completed while the first key's has
\* not, and nothing has been answered yet.
C16_Witness ==
  /\ pc = "billing"
  /\ Len(tasks) = MaxKeys
  /\ tasks[MaxKeys].stage = "done"
  /\ tasks[1].stage # "done"
  /\ resp = NoResponse

\* C17: while the queue of unread chunks is full, the handler reads no further
\* chunk from the upstream body: consumption stalls until the caller reads, so
\* the unread output stays bounded whatever the length of the body.
C17_ReadsStallWhenQueueFull ==
  [][Len(stream.queue) >= HighWaterMark => upstream' = upstream]_vars

\* C18: a caller's disconnect is propagated to the upstream connection: once
\* the outbound stream is cancelled, the handler eventually stops reading the
\* upstream body and releases it (the loop of lines 186-188 is left).
C18_CancelReleasesUpstream ==
  stream.cancelled ~> loop # "running"

\* C19: when the upstream body ends, the outbound stream ends too, with or
\* without a "[DONE]" event, so the caller is not left waiting. Stated on the
\* state in which nothing is left to happen: once the loop has returned and the
\* caller has read every queued chunk, the stream is closed or errored.
C19_EndedBodyEndsStream ==
  (loop = "returned" /\ stream.queue = <<>>) => stream.state \in {"closed", "errored"}

\* The index of the first "[DONE]" event of e, 0 if there is none.
FirstDone(e) ==
  IF \E i \in 1..Len(e) : e[i] = <<"DONE">>
  THEN CHOOSE i \in 1..Len(e) : e[i] = <<"DONE">> /\ \A j \in 1..(i - 1) : e[j] # <<"DONE">>
  ELSE 0

\* C20: once a "[DONE]" event has closed the stream (controller.close() was
\* called on it), later events enqueue nothing and the stream is never errored:
\* it stays closing or closed.
C20_ClosedIsAbsorbing ==
  stream.closeRequested =>
    /\ stream.state # "errored"
    /\ stream.enqueued = DeltasBefore(sent, FirstDone(sent))

====
